---- MODULE Spec2Model ----
(***************************************************************************)
(* Model of runALPAO.c: the deformable-mirror command loop.              *)
(*                                                                         *)
(* Seven specifications share the variables below:                         *)
(*   Spec      controlLoop (startup, baseline dispatch, wait/dispatch     *)
(*             loop, SIGINT shutdown) with its environment (external      *)
(*             writer, signal, device and file outcomes);                 *)
(*   SpecFair  the loop and the shutdown of controlLoop, from a           *)
(*             successful start on, under a fair scheduler;               *)
(*   SpecCal   parse_calibration_file, line by line, and its caller;      *)
(*   SpecPipe  sendCommand, stage by stage, on drawn inputs;              *)
(*   SpecMap   get_actuator_mapping, row by row, on drawn mask grids;     *)
(*   SpecArgs  argp_parse delivering a command line to parse_opt;         *)
(*   SpecOld   sendCommand of the earlier variant of the program.         *)
(*                                                                         *)
(* Scalars (C double / float) are modelled as exact rationals extended    *)
(* with NaN and the two infinities; rounding, signed zero and overflow of *)
(* finite values are not modelled.                                        *)
(***************************************************************************)
EXTENDS Integers, Sequences, FiniteSets, TLC

VARIABLES
    pc,                \* position of controlLoop / of the specification in use
    nobias, nonorm, fractional,   \* the three switches (0 or 1)
    max_stroke, volume_factor,    \* calibration constants (Scalars)
    calidx,            \* parse_calibration_file: write index after the read loop
    dm,                \* device handle: "null", "open", "released"
    nbAct,             \* actuator count
    actuator_mapping,  \* array of nbAct entries: flattened index or Uninit
    ij,                \* get_actuator_mapping: number of entries written
    mapret,            \* return value of get_actuator_mapping (ignored by the caller)
    mapfile,           \* what the mapping file turned out to be
    frame,             \* the channel's data array (flattened, 0-based)
    sem,               \* semaphore 0 of the channel
    shape,             \* shape the attached channel declares
    stop,              \* volatile sig_atomic_t stop
    handler,           \* TRUE once sigaction installed handle_signal
    ret,               \* value controlLoop returned
    log,               \* calls made to the device and to the semaphore wait
    sent,              \* vector of the latest asdkSend call
    posts,             \* external writer: posts made so far
    sigwait,           \* SIGINT was handled while blocked in the loop's wait
    sigmark,           \* Len(log) when that happened
    callines,          \* parse_calibration_file: strtod of each line of the file
    calenv, calopen,   \* parse_calibration_file: variable set, file opens
    calibvals,         \* parse_calibration_file: the two-slot buffer
    dminputs,          \* sendCommand: the working array
    warned,            \* clip_to_limits: the actuators reported as saturated, in order
    mask, naxes, fpixel, readfail,  \* get_actuator_mapping: grid, size, row, failing row
    written,           \* get_actuator_mapping: every write, <<index, value>>, in order
    argv, argrest,     \* argp_parse: the command line, and what is left of it
    args, arg_num      \* struct arguments: args[2]; argp_state: arg_num

vars == <<pc, nobias, nonorm, fractional, max_stroke, volume_factor, calidx,
          dm, nbAct, actuator_mapping, ij, mapret, mapfile, frame, sem, shape,
          stop, handler, ret, log, sent, posts, sigwait, sigmark,
          callines, calenv, calopen, calibvals,
          dminputs, warned, mask, naxes, fpixel, readfail, written,
          argv, argrest, args, arg_num>>

\* the variables controlLoop's specification leaves idle
aux == <<calidx, callines, calenv, calopen, calibvals, argv, argrest,
         args, arg_num, dminputs, warned, mask, naxes, fpixel, readfail>>

-----------------------------------------------------------------------------
(* Bounds of the model *)

MaxAct     == 2     \* largest actuator count the device reports
MaskW      == 2     \* largest mask width  (NAXIS1)
MaskH      == 2     \* largest mask height (NAXIS2)
MaxLines   == 3     \* most lines in the calibration file
MaxPosts   == 1     \* most posts by the external writer
MaxArgv    == 3     \* most words on the command line after the program name
MaxMag     == 2     \* largest magnitude stored in a cell of the channel
ShmDim     == 2     \* side of the channel grid (shm_dim, 11 in the program)

ShmCells   == ShmDim * ShmDim
Uninit     == -1    \* an actuator_mapping entry never written

-----------------------------------------------------------------------------
(* Scalar arithmetic *)

RECURSIVE GCD(_, _)
GCD(a, b) == IF b = 0 THEN a ELSE GCD(b, a % b)

Abs(n) == IF n < 0 THEN -n ELSE n

NaN  == [k |-> "nan",  n |-> 0, d |-> 1]
PInf == [k |-> "pinf", n |-> 0, d |-> 1]
NInf == [k |-> "ninf", n |-> 0, d |-> 1]

\* the rational n/d (d # 0) in lowest terms with a positive denominator
Fin(n, d) ==
    LET g == GCD(Abs(n), Abs(d))
        s == IF d < 0 THEN -1 ELSE 1
    IN  [k |-> "fin", n |-> (s * n) \div g, d |-> Abs(d) \div g]

F(n) == [k |-> "fin", n |-> n, d |-> 1]

Zero     == F(0)
One      == F(1)
MinusOne == F(-1)

IsNaN(x) == x.k = "nan"
IsInf(x) == x.k \in {"pinf", "ninf"}

Sign(x) ==
    CASE x.k = "pinf" -> 1
      [] x.k = "ninf" -> -1
      [] x.k = "fin"  -> (IF x.n > 0 THEN 1 ELSE IF x.n < 0 THEN -1 ELSE 0)
      [] OTHER        -> 0

Inf(s) == IF s < 0 THEN NInf ELSE PInf

\* a * b
FMul(a, b) ==
    IF IsNaN(a) \/ IsNaN(b) THEN NaN
    ELSE IF IsInf(a) \/ IsInf(b)
         THEN (IF Sign(a) * Sign(b) = 0 THEN NaN ELSE Inf(Sign(a) * Sign(b)))
    ELSE Fin(a.n * b.n, a.d * b.d)

\* a / b
FDiv(a, b) ==
    IF IsNaN(a) \/ IsNaN(b) THEN NaN
    ELSE IF IsInf(a) THEN (IF IsInf(b) THEN NaN
                           ELSE IF Sign(b) < 0 THEN Inf(-Sign(a)) ELSE Inf(Sign(a)))
    ELSE IF IsInf(b) THEN Zero
    ELSE IF b.n = 0 THEN (IF a.n = 0 THEN NaN ELSE Inf(Sign(a)))
    ELSE Fin(a.n * b.d, a.d * b.n)

\* a + b
FAdd(a, b) ==
    IF IsNaN(a) \/ IsNaN(b) THEN NaN
    ELSE IF IsInf(a) THEN (IF IsInf(b) /\ a # b THEN NaN ELSE a)
    ELSE IF IsInf(b) THEN b
    ELSE Fin(a.n * b.d + b.n * a.d, a.d * b.d)

FNeg(a) ==
    CASE a.k = "pinf" -> NInf
      [] a.k = "ninf" -> PInf
      [] a.k = "fin"  -> [a EXCEPT !.n = -a.n]
      [] OTHER        -> NaN

\* a - b
FSub(a, b) == FAdd(a, FNeg(b))

\* a > b: false when either operand is NaN
FGt(a, b) ==
    IF IsNaN(a) \/ IsNaN(b) THEN FALSE
    ELSE IF a.k = "pinf" THEN b.k # "pinf"
    ELSE IF a.k = "ninf" THEN FALSE
    ELSE IF b.k = "pinf" THEN FALSE
    ELSE IF b.k = "ninf" THEN TRUE
    ELSE a.n * b.d > b.n * a.d

\* a < b
FLt(a, b) == FGt(b, a)

\* x lies in [-1, 1]
InUnit(x) == x.k = "fin" /\ -x.d <= x.n /\ x.n <= x.d

-----------------------------------------------------------------------------
(* The normalization pipeline *)

\* clip_to_limits writing twice the limit into a saturated element
clip_to_limits_TwiceLimit(d, n) ==
    [idx \in 1..n |->
        IF FGt(d[idx], One) THEN F(2)
        ELSE IF FLt(d[idx], MinusOne) THEN F(-2)
        ELSE d[idx]]

\* clip_to_limits, lines 111-127
clip_to_limits(d, n) ==
    [idx \in 1..n |->
        IF FGt(d[idx], One) THEN One
        ELSE IF FLt(d[idx], MinusOne) THEN MinusOne
        ELSE d[idx]]

\* clip_warnings reporting a value that sits on the limit as well
RECURSIVE clip_warnings_AtLimit(_, _)
clip_warnings_AtLimit(d, n) ==
    IF n = 0 THEN <<>>
    ELSE LET w == clip_warnings_AtLimit(d, n - 1)
         IN  IF d[n] = One \/ FGt(d[n], One) \/ d[n] = MinusOne \/ FLt(d[n], MinusOne)
             THEN Append(w, n) ELSE w

\* the printf calls of clip_to_limits, lines 119 and 123: the actuator numbers
\* (idx + 1) reported as saturated, in the order of the loop
RECURSIVE clip_warnings(_, _)
clip_warnings(d, n) ==
    IF n = 0 THEN <<>>
    ELSE LET w == clip_warnings(d, n - 1)
         IN  IF FGt(d[n], One) \/ FLt(d[n], MinusOne)
             THEN Append(w, n) ELSE w

\* microns_to_fractional_stroke, lines 132-140
microns_to_fractional_stroke(d, n, ms) ==
    [idx \in 1..n |-> FDiv(d[idx], ms)]

\* normalize_inputs dividing by the factor instead of multiplying
normalize_inputs_Divides(d, n, vf) ==
    [idx \in 1..n |-> FDiv(d[idx], vf)]

\* normalize_inputs, lines 146-154
normalize_inputs(d, n, vf) ==
    [idx \in 1..n |-> FMul(d[idx], vf)]

\* the accumulation loop of bias_inputs, lines 163-167
RECURSIVE SumTo(_, _)
SumTo(d, idx) == IF idx = 0 THEN Zero ELSE FAdd(SumTo(d, idx - 1), d[idx])

\* bias_inputs, lines 157-175
bias_inputs(d, n) ==
    LET mean == FDiv(SumTo(d, n), F(n))
    IN  [idx \in 1..n |-> FSub(d[idx], mean)]

\* the gather loop of sendCommand, lines 325-330; an entry that was never
\* written, or that points outside the array, reads an arbitrary value g[idx]
Gather(fr, map, n, g) ==
    [idx \in 1..n |->
        IF map[idx] \in DOMAIN fr THEN fr[map[idx]] ELSE g[idx]]

\* sendCommand, lines 325-353: the vector handed to asdkSend
sendCommandVec(fr, map, n, nb, nn, fc, ms, vf, g) ==
    LET d0 == Gather(fr, map, n, g)
        d1 == IF nn # 1 THEN normalize_inputs(d0, n, vf) ELSE d0
        d2 == IF fc # 1 THEN microns_to_fractional_stroke(d1, n, ms) ELSE d1
        d3 == IF nb # 1 THEN bias_inputs(d2, n) ELSE d2
    IN  clip_to_limits(d3, n)

-----------------------------------------------------------------------------
(* The actuator map loader *)

PixVals == {-1, 0, 1}

\* the grids of a W x H image: row (1-based, as fpixel[1]) -> column (0-based) -> pixel
Masks(W, H) == [1..H -> [0..(W - 1) -> PixVals]]

\* RowHits with the row taken 1-based in the flattened index
RECURSIVE RowHits_OneBasedRow(_, _, _, _)
RowHits_OneBasedRow(m, W, r, n) ==
    IF n = 0 THEN <<>>
    ELSE LET ii == n - 1
         IN  IF m[r][ii] > 0
             THEN Append(RowHits_OneBasedRow(m, W, r, ii), r * W + ii)
             ELSE RowHits_OneBasedRow(m, W, r, ii)

\* lines 295-300 for one row: the flattened indices of its positive pixels, left to right
RECURSIVE RowHits(_, _, _, _)
RowHits(m, W, r, n) ==
    IF n = 0 THEN <<>>
    ELSE LET ii == n - 1
         IN  IF m[r][ii] > 0
             THEN Append(RowHits(m, W, r, ii), (r - 1) * W + ii)
             ELSE RowHits(m, W, r, ii)

\* lines 288-301 from row r down to row 1; the read of row rf fails and ends the scan
RECURSIVE ScanRows(_, _, _, _)
ScanRows(m, W, r, rf) ==
    IF r < 1 \/ r = rf THEN <<>>
    ELSE RowHits(m, W, r, W) \o ScanRows(m, W, r - 1, rf)

\* the array after the values vs were stored at indices k, k+1, ...; a store
\* at an index >= Len(arr) lands outside the malloc'ed block and leaves arr alone
RECURSIVE StoreAt(_, _, _)
StoreAt(arr, k, vs) ==
    IF vs = <<>> THEN arr
    ELSE StoreAt(IF k < Len(arr) THEN [arr EXCEPT ![k + 1] = Head(vs)] ELSE arr,
                 k + 1, Tail(vs))

\* the writes <<index, value>> made when vs is stored from index k on
RECURSIVE WritesAt(_, _)
WritesAt(k, vs) ==
    IF vs = <<>> THEN <<>>
    ELSE <<(<<k, Head(vs)>>)>> \o WritesAt(k + 1, Tail(vs))

\* malloc(nbAct * sizeof(int)), line 408
FreshMapping(n) == [i \in 1..n |-> Uninit]

-----------------------------------------------------------------------------
(* Input sets *)

Bits      == {0, 1}
\* what a cell of the channel may hold: finite values and NaN
FrameVals == {F(-MaxMag), MinusOne, Zero, One, F(MaxMag), NaN}
\* the frames the external writer stores: one value in every cell
WriterFrames == {[c \in 0..(ShmCells - 1) |-> v] : v \in {Zero, F(MaxMag)}}
\* what an out-of-bounds or uninitialised read may yield
Garbage   == {Zero, NaN}
\* strtod of a calibration line: 0 for a line without a number
CalVals   == {Zero, F(2)}
\* the content of a malloc'ed slot that was never written
CalJunk   == {NaN}
\* the shape the attached channel declares: <<naxis, size[0], size[1]>>
Shapes    == {<<2, ShmDim, ShmDim>>, <<1, ShmDim, ShmDim>>,
              <<2, ShmDim + 1, ShmDim>>, <<2, ShmDim, ShmDim + 1>>}

ZeroFrame == [c \in 0..(ShmCells - 1) |-> Zero]
NoVec     == <<>>
NoMask    == <<>>

Terminal  == {"returned", "crashed", "killed"}

\* the garbage vectors a gather may read: one choice when every entry is valid
Junk(map, n, fr) ==
    IF \A i \in 1..n : map[i] \in DOMAIN fr
    THEN {[i \in 1..n |-> Zero]}
    ELSE [1..n -> Garbage]

Count(sq, e) == Cardinality({i \in 1..Len(sq) : sq[i] = e})

-----------------------------------------------------------------------------
(* controlLoop: startup *)

calIdle  == calidx = 0 /\ callines = <<>> /\ calenv = TRUE /\ calopen = TRUE
            /\ calibvals = <<>>
pipeIdle == dminputs = NoVec /\ warned = <<>>
optIdle  == argv = <<>> /\ argrest = <<>> /\ args = <<>> /\ arg_num = 0
mapIdle  == mask = NoMask /\ naxes = <<0, 0>> /\ fpixel = 0 /\ readfail = 0

Init ==
    /\ pc = "parse_cal"
    /\ nobias \in Bits /\ nonorm \in Bits /\ fractional \in Bits
    /\ max_stroke = NaN /\ volume_factor = NaN
    /\ dm = "null" /\ nbAct = 0 /\ actuator_mapping = <<>> /\ ij = 0 /\ mapret = 0
    /\ mapfile = "none"
    /\ frame = ZeroFrame /\ sem = 0 /\ shape = <<0, 0, 0>>
    /\ stop = 0 /\ handler = FALSE /\ ret = 0
    /\ log = <<>> /\ sent = NoVec /\ posts = 0
    /\ sigwait = FALSE /\ sigmark = 0
    /\ written = <<>>
    /\ calIdle /\ pipeIdle /\ mapIdle /\ optIdle

\* parse_calibration_file and the test of its result, lines 181-230 and 383-388.
\* getenv may return NULL, and strcpy from NULL is undefined: the process dies
\* or goes on with some path.  calibvals has two slots: a file with fewer lines
\* leaves a slot unwritten, a file with more lines writes past the block.
ParseCalibration ==
    /\ pc = "parse_cal"
    /\ \E envSet \in BOOLEAN, opened \in BOOLEAN, nlines \in 0..MaxLines,
          l1 \in CalVals, l2 \in CalVals, j1 \in CalJunk, j2 \in CalJunk,
          dies \in BOOLEAN :
         IF dies /\ (~envSet \/ (opened /\ nlines > 2))
         THEN /\ pc' = "crashed"
              /\ UNCHANGED <<max_stroke, volume_factor, ret>>
         ELSE IF ~opened
         THEN /\ pc' = "returned" /\ ret' = -1
              /\ UNCHANGED <<max_stroke, volume_factor>>
         ELSE /\ max_stroke' = (IF nlines >= 1 THEN l1 ELSE j1)
              /\ volume_factor' = (IF nlines >= 2 THEN l2 ELSE j2)
              /\ pc' = "asdk_init"
              /\ UNCHANGED ret
    /\ UNCHANGED <<nobias, nonorm, fractional, dm, nbAct, actuator_mapping,
                   ij, mapret, mapfile, frame, sem, shape, stop, handler, log,
                   sent, posts, sigwait, sigmark, written, aux>>

\* asdkInit, lines 391-396
AsdkInit ==
    /\ pc = "asdk_init"
    /\ \E ok \in BOOLEAN :
         IF ok THEN /\ dm' = "open" /\ pc' = "asdk_get"
                    /\ log' = Append(log, "init") /\ UNCHANGED ret
               ELSE /\ pc' = "returned" /\ ret' = -1
                    /\ UNCHANGED <<dm, log>>
    /\ UNCHANGED <<nobias, nonorm, fractional, max_stroke, volume_factor,
                   nbAct, actuator_mapping, ij, mapret, mapfile, frame, sem,
                   shape, stop, handler, sent, posts, sigwait,
                   sigmark, written, aux>>

\* asdkGet("NbOfActuator"), lines 399-404
AsdkGet ==
    /\ pc = "asdk_get"
    /\ log' = Append(log, "get")
    /\ \E r \in {0, -1}, n \in 1..MaxAct :
         IF r = -1 THEN /\ pc' = "returned" /\ ret' = -1 /\ UNCHANGED nbAct
                   ELSE /\ nbAct' = n /\ pc' = "get_map" /\ UNCHANGED ret
    /\ UNCHANGED <<nobias, nonorm, fractional, max_stroke, volume_factor, dm,
                   actuator_mapping, ij, mapret, mapfile, frame, sem, shape,
                   stop, handler, sent, posts, sigwait, sigmark,
                   written, aux>>

\* malloc of the mapping and get_actuator_mapping, lines 408-409 and 232-313,
\* on a grid of one row and nbAct + 1 columns (the scan of a taller grid is
\* SpecMap's).  The caller ignores the result.  When the file does not open, free(pix)
\* frees an uninitialised pointer; when the grid has more than nbAct positive
\* cells the stores run past the block: the process dies or goes on.
GetActuatorMapping ==
    /\ pc = "get_map"
    /\ \E file \in {"openfail", "notimage", "not2d", "ok"},
          dies \in BOOLEAN, rf \in {0, 1} :
       \E m \in Masks(nbAct + 1, 1) :
         LET hits == IF file = "ok" THEN ScanRows(m, nbAct + 1, 1, rf) ELSE <<>>
             ub   == file = "openfail" \/ Len(hits) > nbAct
         IN  IF dies /\ ub
             THEN /\ pc' = "crashed"
                  /\ UNCHANGED <<actuator_mapping, ij, mapret, mapfile, written>>
             ELSE /\ actuator_mapping' = StoreAt(FreshMapping(nbAct), 0, hits)
                  /\ mapfile' = file
                  /\ ij' = Len(hits)
                  /\ written' = WritesAt(0, hits)
                  /\ mapret' = (IF file \in {"notimage", "not2d"} THEN 1 ELSE 0)
                  /\ pc' = "ism_create"
    /\ UNCHANGED <<nobias, nonorm, fractional, max_stroke, volume_factor, dm,
                   nbAct, frame, sem, shape, stop, handler, ret, log, sent,
                   posts, sigwait, sigmark, aux>>

-----------------------------------------------------------------------------
(* controlLoop: the channel *)

\* ImageStreamIO_createIm, line 86: the named semaphore may hold posts left by
\* an earlier run, and the array whatever the mapping held
CreateIm ==
    /\ pc = "ism_create"
    /\ \E backlog \in {0, 1}, old \in WriterFrames :
         /\ sem' = backlog
         /\ frame' = old
    /\ pc' = "ism_flush"
    /\ UNCHANGED <<nobias, nonorm, fractional, max_stroke, volume_factor, dm,
                   nbAct, actuator_mapping, ij, mapret, mapfile, shape, stop,
                   handler, ret, log, sent, posts, sigwait, sigmark,
                   written, aux>>

\* SemFlush leaving the semaphore as it found it
SemFlush_KeepsBacklog ==
    /\ pc = "ism_flush"
    /\ pc' = "ism_zero"
    /\ UNCHANGED <<nobias, nonorm, fractional, max_stroke, volume_factor,
                   nbAct, actuator_mapping, ij, mapret, mapfile, frame, shape,
                   stop, handler, ret, log, sent, posts, sigwait,
                   sigmark, written, sem, dm, aux>>

\* ImageStreamIO_semflush, line 90
SemFlush ==
    /\ pc = "ism_flush"
    /\ sem' = 0
    /\ pc' = "ism_zero"
    /\ UNCHANGED <<nobias, nonorm, fractional, max_stroke, volume_factor, dm,
                   nbAct, actuator_mapping, ij, mapret, mapfile, frame, shape,
                   stop, handler, ret, log, sent, posts, sigwait,
                   sigmark, written, aux>>

\* the zero fill, lines 93-98
ZeroFill ==
    /\ pc = "ism_zero"
    /\ frame' = ZeroFrame
    /\ pc' = "ism_post"
    /\ UNCHANGED <<nobias, nonorm, fractional, max_stroke, volume_factor, dm,
                   nbAct, actuator_mapping, ij, mapret, mapfile, sem, shape,
                   stop, handler, ret, log, sent, posts, sigwait,
                   sigmark, written, aux>>

\* ImageStreamIO_sempost, lines 101-105
SemPost ==
    /\ pc = "ism_post"
    /\ sem' = sem + 1
    /\ pc' = "attach"
    /\ UNCHANGED <<nobias, nonorm, fractional, max_stroke, volume_factor, dm,
                   nbAct, actuator_mapping, ij, mapret, mapfile, frame, shape,
                   stop, handler, ret, log, sent, posts, sigwait,
                   sigmark, written, aux>>

\* Attach without the test of the second axis
Attach_SkipsAxis2 ==
    /\ pc = "attach"
    /\ \E sh \in Shapes :
         /\ shape' = sh
         /\ IF sh[1] # 2 \/ sh[2] # ShmDim
            THEN pc' = "returned" /\ ret' = -1
            ELSE pc' = "base_wait" /\ UNCHANGED ret
    /\ UNCHANGED <<nobias, nonorm, fractional, max_stroke, volume_factor,
                   nbAct, actuator_mapping, ij, mapret, mapfile, frame, sem,
                   stop, handler, log, sent, posts, sigwait, sigmark,
                   written, dm, aux>>

\* ImageStreamIO_read_sharedmem_image_toIMAGE and the shape tests, lines 415-430
Attach ==
    /\ pc = "attach"
    /\ \E sh \in Shapes :
         /\ shape' = sh
         /\ IF sh[1] # 2 \/ sh[2] # ShmDim \/ sh[3] # ShmDim
            THEN pc' = "returned" /\ ret' = -1
            ELSE pc' = "base_wait" /\ UNCHANGED ret
    /\ UNCHANGED <<nobias, nonorm, fractional, max_stroke, volume_factor, dm,
                   nbAct, actuator_mapping, ij, mapret, mapfile, frame, sem,
                   stop, handler, log, sent, posts, sigwait, sigmark,
                   written, aux>>

\* BaseWait with the handler installed before the baseline
BaseWait_InstallsHandler ==
    /\ pc = "base_wait"
    /\ sem > 0
    /\ sem' = sem - 1
    /\ handler' = TRUE
    /\ log' = Append(log, "semwait")
    /\ pc' = "base_send"
    /\ UNCHANGED <<nobias, nonorm, fractional, max_stroke, volume_factor,
                   nbAct, actuator_mapping, ij, mapret, mapfile, frame, shape,
                   stop, ret, sent, posts, sigwait, sigmark,
                   written, dm, aux>>

\* ImageStreamIO_semwait before the baseline, line 434
BaseWait ==
    /\ pc = "base_wait"
    /\ sem > 0
    /\ sem' = sem - 1
    /\ log' = Append(log, "semwait")
    /\ pc' = "base_send"
    /\ UNCHANGED <<nobias, nonorm, fractional, max_stroke, volume_factor, dm,
                   nbAct, actuator_mapping, ij, mapret, mapfile, frame, shape,
                   stop, handler, ret, sent, posts, sigwait, sigmark,
                   written, aux>>

\* Dispatch without the test of the result: a failed send is followed by the
\* next step as if it had succeeded
Dispatch_IgnoresFailure(next) ==
    /\ \E g \in Junk(actuator_mapping, nbAct, frame), r \in {0, -1} :
         /\ sent' = sendCommandVec(frame, actuator_mapping, nbAct, nobias,
                                   nonorm, fractional, max_stroke,
                                   volume_factor, g)
         /\ log' = Append(log, IF r = -1 THEN "sendfail" ELSE "send")
         /\ pc' = next /\ UNCHANGED ret
    /\ UNCHANGED <<nobias, nonorm, fractional, max_stroke, volume_factor,
                   nbAct, actuator_mapping, ij, mapret, mapfile, frame, sem,
                   shape, stop, handler, posts, sigwait, sigmark,
                   written, dm, aux>>

\* sendCommand as called from controlLoop, with the test of its result:
\* lines 436-440 (next = "sigaction") and 460-464 (next = "loop_top").  The
\* stages and the console output of the clip are followed one by one in SpecPipe.
Dispatch(next) ==
    /\ \E g \in Junk(actuator_mapping, nbAct, frame), r \in {0, -1} :
         /\ sent' = sendCommandVec(frame, actuator_mapping, nbAct, nobias,
                                   nonorm, fractional, max_stroke,
                                   volume_factor, g)
         /\ IF r = -1
            THEN /\ log' = Append(log, "sendfail")
                 /\ pc' = "returned" /\ ret' = -1
            ELSE /\ log' = Append(log, "send")
                 /\ pc' = next /\ UNCHANGED ret
    /\ UNCHANGED <<nobias, nonorm, fractional, max_stroke, volume_factor, dm,
                   nbAct, actuator_mapping, ij, mapret, mapfile, frame, sem,
                   shape, stop, handler, posts, sigwait, sigmark,
                   written, aux>>

\* the baseline dispatch, lines 436-440
BaseSend ==
    /\ pc = "base_send"
    /\ Dispatch("sigaction")

-----------------------------------------------------------------------------
(* controlLoop: the loop and the shutdown *)

\* sigaction, lines 443-446
Sigaction ==
    /\ pc = "sigaction"
    /\ handler' = TRUE
    /\ pc' = "clear_stop"
    /\ UNCHANGED <<nobias, nonorm, fractional, max_stroke, volume_factor, dm,
                   nbAct, actuator_mapping, ij, mapret, mapfile, frame, sem,
                   shape, stop, ret, log, sent, posts, sigwait,
                   sigmark, written, aux>>

\* stop = 0, line 447
ClearStop ==
    /\ pc = "clear_stop"
    /\ stop' = 0
    /\ pc' = "loop_top"
    /\ UNCHANGED <<nobias, nonorm, fractional, max_stroke, volume_factor, dm,
                   nbAct, actuator_mapping, ij, mapret, mapfile, frame, sem,
                   shape, handler, ret, log, sent, posts, sigwait,
                   sigmark, written, aux>>

\* LoopTop without the test of stop: the loop never ends
LoopTop_IgnoresStop ==
    /\ pc = "loop_top"
    /\ pc' = "loop_wait"
    /\ UNCHANGED <<nobias, nonorm, fractional, max_stroke, volume_factor,
                   nbAct, actuator_mapping, ij, mapret, mapfile, frame, sem,
                   shape, stop, handler, ret, log, sent, posts, sigwait, sigmark, written, dm, aux>>

\* while (!stop), line 450
LoopTop ==
    /\ pc = "loop_top"
    /\ pc' = (IF stop = 0 THEN "loop_wait" ELSE "reset")
    /\ UNCHANGED <<nobias, nonorm, fractional, max_stroke, volume_factor, dm,
                   nbAct, actuator_mapping, ij, mapret, mapfile, frame, sem,
                   shape, stop, handler, ret, log, sent, posts, sigwait, sigmark, written, aux>>

\* LoopWait clearing the array once the post is taken
LoopWait_ClearsFrame ==
    /\ pc = "loop_wait"
    /\ \/ sem > 0 /\ sem' = sem - 1
       \/ sigwait /\ UNCHANGED sem
    /\ frame' = ZeroFrame
    /\ log' = Append(log, "semwait")
    /\ pc' = "loop_chk"
    /\ UNCHANGED <<nobias, nonorm, fractional, max_stroke, volume_factor,
                   nbAct, actuator_mapping, ij, mapret, mapfile, shape,
                   stop, handler, ret, sent, posts, sigwait, sigmark,
                   written, dm, aux>>

\* ImageStreamIO_semwait in the loop, line 454: returns when the semaphore is
\* positive, or without taking a post when a handled signal interrupted it
LoopWait ==
    /\ pc = "loop_wait"
    /\ \/ sem > 0 /\ sem' = sem - 1
       \/ sigwait /\ UNCHANGED sem
    /\ log' = Append(log, "semwait")
    /\ pc' = "loop_chk"
    /\ UNCHANGED <<nobias, nonorm, fractional, max_stroke, volume_factor, dm,
                   nbAct, actuator_mapping, ij, mapret, mapfile, frame, shape,
                   stop, handler, ret, sent, posts, sigwait, sigmark,
                   written, aux>>

\* LoopCheck without the test of stop: every wake dispatches
LoopCheck_NoStopTest ==
    /\ pc = "loop_chk"
    /\ pc' = "loop_send"
    /\ UNCHANGED <<nobias, nonorm, fractional, max_stroke, volume_factor,
                   nbAct, actuator_mapping, ij, mapret, mapfile, frame, sem,
                   shape, stop, handler, ret, log, sent, posts, sigwait, sigmark, written, dm, aux>>

\* if (!stop), line 457
LoopCheck ==
    /\ pc = "loop_chk"
    /\ pc' = (IF stop = 0 THEN "loop_send" ELSE "loop_top")
    /\ UNCHANGED <<nobias, nonorm, fractional, max_stroke, volume_factor, dm,
                   nbAct, actuator_mapping, ij, mapret, mapfile, frame, sem,
                   shape, stop, handler, ret, log, sent, posts, sigwait, sigmark, written, aux>>

\* LoopSend dispatching again without going back to the wait
LoopSend_Repeats ==
    /\ pc = "loop_send"
    /\ Dispatch("loop_send")

\* the dispatch of a loop cycle, lines 460-464
LoopSend ==
    /\ pc = "loop_send"
    /\ Dispatch("loop_top")

\* asdkReset, line 471
AsdkReset ==
    /\ pc = "reset"
    /\ log' = Append(log, "reset")
    /\ pc' = "release"
    /\ UNCHANGED <<nobias, nonorm, fractional, max_stroke, volume_factor, dm,
                   nbAct, actuator_mapping, ij, mapret, mapfile, frame, sem,
                   shape, stop, handler, ret, sent, posts, sigwait,
                   sigmark, written, aux>>

\* asdkRelease and the return, lines 472-475
AsdkRelease ==
    /\ pc = "release"
    /\ log' = Append(log, "release")
    /\ dm' = "released"
    /\ \E r \in {0, -1} : ret' = r
    /\ pc' = "returned"
    /\ UNCHANGED <<nobias, nonorm, fractional, max_stroke, volume_factor,
                   nbAct, actuator_mapping, ij, mapret, mapfile, frame, sem,
                   shape, stop, handler, sent, posts, sigwait,
                   sigmark, written, aux>>

-----------------------------------------------------------------------------
(* The environment of controlLoop *)

\* SIGINT: handle_signal (lines 52-59) once installed, the default action
\* before.  Between the test of line 450 and the call of line 454 the process
\* is not yet blocked: a signal handled there sets stop and interrupts nothing.
SigInt ==
    /\ pc \notin Terminal
    /\ IF handler
       THEN /\ stop' = 1
            /\ \E blocked \in BOOLEAN :
                 IF pc = "loop_wait" /\ ~sigwait /\ blocked
                 THEN sigwait' = TRUE /\ sigmark' = Len(log)
                 ELSE UNCHANGED <<sigwait, sigmark>>
            /\ UNCHANGED pc
       ELSE /\ pc' = "killed"
            /\ UNCHANGED <<stop, sigwait, sigmark>>
    /\ UNCHANGED <<nobias, nonorm, fractional, max_stroke, volume_factor, dm,
                   nbAct, actuator_mapping, ij, mapret, mapfile, frame, sem,
                   shape, handler, ret, log, sent, posts, written,
                   aux>>

ChannelExists ==
    pc \in {"ism_flush", "ism_zero", "ism_post", "attach", "base_wait",
            "base_send", "sigaction", "clear_stop", "loop_top", "loop_wait",
            "loop_chk", "loop_send", "reset", "release"}

\* the external writer stores a frame in the channel
WriterStore ==
    /\ ChannelExists
    /\ \E f \in WriterFrames \ {frame} : frame' = f
    /\ UNCHANGED <<pc, nobias, nonorm, fractional, max_stroke, volume_factor,
                   dm, nbAct, actuator_mapping, ij, mapret, mapfile, sem,
                   shape, stop, handler, ret, log, sent, posts, sigwait,
                   sigmark, written, aux>>

\* the external writer posts the semaphore
WriterPost ==
    /\ ChannelExists
    /\ posts < MaxPosts
    /\ posts' = posts + 1
    /\ sem' = sem + 1
    /\ UNCHANGED <<pc, nobias, nonorm, fractional, max_stroke, volume_factor,
                   dm, nbAct, actuator_mapping, ij, mapret, mapfile, frame,
                   shape, stop, handler, ret, log, sent, sigwait,
                   sigmark, written, aux>>

Next ==
    \/ ParseCalibration \/ AsdkInit \/ AsdkGet \/ GetActuatorMapping
    \/ CreateIm \/ SemFlush \/ ZeroFill \/ SemPost \/ Attach
    \/ BaseWait \/ BaseSend \/ Sigaction \/ ClearStop
    \/ LoopTop \/ LoopWait \/ LoopCheck \/ LoopSend
    \/ AsdkReset \/ AsdkRelease
    \/ SigInt \/ WriterStore \/ WriterPost

Spec == Init /\ [][Next]_vars

-----------------------------------------------------------------------------
(* parse_calibration_file, line by line *)

\* the variables of controlLoop that the three side specifications leave idle
ctlIdle ==
    /\ dm = "null" /\ sem = 0 /\ shape = <<0, 0, 0>> /\ stop = 0
    /\ handler = FALSE /\ ret = 0 /\ posts = 0
    /\ sigwait = FALSE /\ sigmark = 0

ctlVars == <<dm, sem, shape, stop, handler, posts, sigwait, sigmark>>

\* the variables of the command-line parse
optVars == <<argv, argrest, args, arg_num>>

\* the files of up to n lines
RECURSIVE LinesUpTo(_)
LinesUpTo(n) ==
    IF n = 0 THEN {<<>>}
    ELSE LET S == LinesUpTo(n - 1)
         IN  S \cup {Append(l, v) : l \in {x \in S : Len(x) = n - 1}, v \in CalVals}

InitCal ==
    /\ pc = "cal_path"
    /\ calenv \in BOOLEAN /\ calopen \in BOOLEAN
    /\ callines \in LinesUpTo(MaxLines)
    /\ calidx = 0 /\ calibvals = <<>>
    /\ max_stroke = NaN /\ volume_factor = NaN
    /\ nobias = 0 /\ nonorm = 0 /\ fractional = 0
    /\ nbAct = 0 /\ actuator_mapping = <<>> /\ ij = 0 /\ mapret = 0
    /\ mapfile = "none" /\ frame = ZeroFrame /\ written = <<>>
    /\ log = <<>> /\ sent = NoVec
    /\ ctlIdle /\ pipeIdle /\ mapIdle /\ optIdle

calRest == <<nobias, nonorm, fractional, nbAct, actuator_mapping, ij, mapret,
             mapfile, frame, written, sent, callines, calenv, calopen,
             dminputs, warned, mask, naxes, fpixel, readfail, ctlVars, optVars>>

\* building the path, lines 195-203: strcpy from the NULL that getenv returns
\* for an unset variable is undefined, the process dies or goes on
CalPath ==
    /\ pc = "cal_path"
    /\ \E dies \in BOOLEAN :
         pc' = (IF dies /\ ~calenv THEN "crashed" ELSE "cal_open")
    /\ UNCHANGED <<calidx, calibvals, max_stroke, volume_factor, ret, log, calRest>>

\* fopen and malloc, lines 206-214
CalOpen ==
    /\ pc = "cal_open"
    /\ IF ~calopen
       THEN /\ ret' = -1 /\ pc' = "cal_ret"
            /\ UNCHANGED <<calidx, calibvals>>
       ELSE /\ \E j1 \in CalJunk, j2 \in CalJunk : calibvals' = <<j1, j2>>
            /\ calidx' = 0
            /\ pc' = "cal_read"
            /\ UNCHANGED ret
    /\ UNCHANGED <<max_stroke, volume_factor, log, calRest>>

\* one turn of the getline loop, lines 215-220: a store at index 2 or more
\* falls outside the block, the process dies or goes on
CalReadLine ==
    /\ pc = "cal_read"
    /\ calidx < Len(callines)
    /\ \E dies \in BOOLEAN :
         IF dies /\ calidx >= 2
         THEN /\ pc' = "crashed"
              /\ UNCHANGED <<calidx, calibvals>>
         ELSE /\ calibvals' = (IF calidx < 2
                               THEN [calibvals EXCEPT ![calidx + 1] = callines[calidx + 1]]
                               ELSE calibvals)
              /\ calidx' = calidx + 1
              /\ UNCHANGED pc
    /\ UNCHANGED <<max_stroke, volume_factor, ret, log, calRest>>

\* end of file, lines 222-229
CalAssign ==
    /\ pc = "cal_read"
    /\ calidx = Len(callines)
    /\ max_stroke' = calibvals[1]
    /\ volume_factor' = calibvals[2]
    /\ ret' = 0
    /\ pc' = "cal_ret"
    /\ UNCHANGED <<calidx, calibvals, log, calRest>>

\* CalCaller without the test of the result: asdkInit is called in any case
CalCaller_IgnoresResult ==
    /\ pc = "cal_ret"
    /\ pc' = "cal_init" /\ log' = Append(log, "init")
    /\ UNCHANGED <<calidx, calibvals, max_stroke, volume_factor, ret, calRest>>

\* the caller, lines 383-392: return on -1, else call asdkInit
CalCaller ==
    /\ pc = "cal_ret"
    /\ IF ret = -1
       THEN pc' = "returned" /\ UNCHANGED log
       ELSE pc' = "cal_init" /\ log' = Append(log, "init")
    /\ UNCHANGED <<calidx, calibvals, max_stroke, volume_factor, ret, calRest>>

NextCal == CalPath \/ CalOpen \/ CalReadLine \/ CalAssign \/ CalCaller

SpecCal == InitCal /\ [][NextCal]_vars

-----------------------------------------------------------------------------
(* get_actuator_mapping, row by row *)

InitMap ==
    /\ pc = "map_open"
    /\ nbAct \in 1..MaxAct
    /\ actuator_mapping = FreshMapping(nbAct)
    /\ mapfile \in {"openfail", "notimage", "not2d", "ok"}
    /\ IF mapfile = "ok"
       THEN \E W \in 1..MaskW, H \in 1..MaskH :
              /\ naxes = <<W, H>>
              /\ mask \in Masks(W, H)
              /\ readfail \in 0..H
       ELSE naxes = <<0, 0>> /\ mask = NoMask /\ readfail = 0
    /\ fpixel = 0 /\ ij = 0 /\ mapret = 0 /\ written = <<>>
    /\ max_stroke = NaN /\ volume_factor = NaN
    /\ nobias = 0 /\ nonorm = 0 /\ fractional = 0
    /\ frame = ZeroFrame /\ log = <<>> /\ sent = NoVec
    /\ ctlIdle /\ calIdle /\ pipeIdle /\ optIdle

mapRest == <<nobias, nonorm, fractional, max_stroke, volume_factor, nbAct,
             mapfile, frame, ret, log, sent, calidx, callines, calenv, calopen,
             calibvals, dminputs, warned, mask, naxes, readfail, ctlVars, optVars>>

\* opening the file and reading its header, lines 261-284
MapOpen ==
    /\ pc = "map_open"
    /\ CASE mapfile = "openfail" -> pc' = "map_end"  /\ UNCHANGED <<mapret, fpixel>>
         [] mapfile = "ok"       -> pc' = "map_scan" /\ fpixel' = naxes[2]
                                    /\ UNCHANGED mapret
         [] OTHER                -> pc' = "map_done" /\ mapret' = 1
                                    /\ UNCHANGED fpixel
    /\ UNCHANGED <<actuator_mapping, ij, written, mapRest>>

\* MapRow taking the pixels of a row from right to left
MapRow_RightToLeft ==
    /\ pc = "map_scan"
    /\ fpixel >= 1
    /\ IF fpixel = readfail
       THEN /\ pc' = "map_end"
            /\ UNCHANGED <<actuator_mapping, ij, written, fpixel>>
       ELSE LET fwd  == RowHits(mask, naxes[1], fpixel, naxes[1])
                hits == [k \in 1..Len(fwd) |-> fwd[Len(fwd) + 1 - k]]
            IN  /\ actuator_mapping' = StoreAt(actuator_mapping, ij, hits)
                /\ written' = written \o WritesAt(ij, hits)
                /\ ij' = ij + Len(hits)
                /\ fpixel' = fpixel - 1
                /\ UNCHANGED pc
    /\ UNCHANGED <<mapret, mapRest>>

\* one row of the scan, lines 288-301: a failing fits_read_pix ends the scan
MapRow ==
    /\ pc = "map_scan"
    /\ fpixel >= 1
    /\ IF fpixel = readfail
       THEN /\ pc' = "map_end"
            /\ UNCHANGED <<actuator_mapping, ij, written, fpixel>>
       ELSE LET hits == RowHits(mask, naxes[1], fpixel, naxes[1])
            IN  /\ actuator_mapping' = StoreAt(actuator_mapping, ij, hits)
                /\ written' = written \o WritesAt(ij, hits)
                /\ ij' = ij + Len(hits)
                /\ fpixel' = fpixel - 1
                /\ UNCHANGED pc
    /\ UNCHANGED <<mapret, mapRest>>

\* the loop ends after row 1, then fits_close_file, line 302
MapClose ==
    /\ pc = "map_scan"
    /\ fpixel < 1
    /\ pc' = "map_end"
    /\ UNCHANGED <<actuator_mapping, ij, written, fpixel, mapret, mapRest>>

\* lines 305-312: free(pix) frees an uninitialised pointer when the file did
\* not open, and stores past the block have damaged the heap: the process
\* dies or goes on
MapEnd ==
    /\ pc = "map_end"
    /\ \E dies \in BOOLEAN :
         IF dies /\ (mapfile = "openfail" \/ ij > nbAct)
         THEN pc' = "crashed" /\ UNCHANGED mapret
         ELSE pc' = "map_done" /\ mapret' = 0
    /\ UNCHANGED <<actuator_mapping, ij, written, fpixel, mapRest>>

NextMap == MapOpen \/ MapRow \/ MapClose \/ MapEnd

SpecMap == InitMap /\ [][NextMap]_vars

-----------------------------------------------------------------------------
(* sendCommand, stage by stage *)

PipeStroke == {Zero, F(2)}
PipeVolume == {F(2), F(3)}

\* the one-to-one mappings of n actuators into an array of n + 1 cells
PipeMaps(n) ==
    {m \in [1..n -> 0..n] : \A a, b \in 1..n : m[a] = m[b] => a = b}

\* the array that holds vals[i] in cell m[i] and zero elsewhere
PipeFrame(m, vals, n) ==
    [c \in 0..n |-> IF \E i \in 1..n : m[i] = c
                     THEN vals[CHOOSE i \in 1..n : m[i] = c]
                     ELSE Zero]

InitPipe ==
    /\ pc = "sc_gather"
    /\ nobias \in Bits /\ nonorm \in Bits /\ fractional \in Bits
    /\ max_stroke \in PipeStroke /\ volume_factor \in PipeVolume
    /\ nbAct \in 1..MaxAct
    /\ actuator_mapping \in PipeMaps(nbAct)
    /\ \E vals \in [1..nbAct -> FrameVals] :
         frame = PipeFrame(actuator_mapping, vals, nbAct)
    /\ dminputs = NoVec /\ warned = <<>> /\ sent = NoVec /\ log = <<>>
    /\ ij = 0 /\ mapret = 0 /\ mapfile = "none" /\ written = <<>>
    /\ ctlIdle /\ calIdle /\ mapIdle /\ optIdle

pipeRest == <<nobias, nonorm, fractional, max_stroke, volume_factor, nbAct,
              actuator_mapping, ij, mapret, mapfile, frame, ret, written,
              calidx, callines, calenv, calopen, calibvals, mask, naxes,
              fpixel, readfail, ctlVars, optVars>>

\* calloc and the gather loop, lines 325-330
ScGather ==
    /\ pc = "sc_gather"
    /\ \E g \in Junk(actuator_mapping, nbAct, frame) :
         dminputs' = Gather(frame, actuator_mapping, nbAct, g)
    /\ pc' = "sc_norm"
    /\ UNCHANGED <<warned, sent, log, pipeRest>>

\* lines 333-336
ScNormalize ==
    /\ pc = "sc_norm"
    /\ dminputs' = (IF nonorm # 1
                    THEN normalize_inputs(dminputs, nbAct, volume_factor)
                    ELSE dminputs)
    /\ pc' = "sc_frac"
    /\ UNCHANGED <<warned, sent, log, pipeRest>>

\* lines 340-343
ScFractional ==
    /\ pc = "sc_frac"
    /\ dminputs' = (IF fractional # 1
                    THEN microns_to_fractional_stroke(dminputs, nbAct, max_stroke)
                    ELSE dminputs)
    /\ pc' = "sc_bias"
    /\ UNCHANGED <<warned, sent, log, pipeRest>>

\* lines 345-348
ScBias ==
    /\ pc = "sc_bias"
    /\ dminputs' = (IF nobias # 1 THEN bias_inputs(dminputs, nbAct) ELSE dminputs)
    /\ pc' = "sc_clip"
    /\ UNCHANGED <<warned, sent, log, pipeRest>>

\* line 353
ScClip ==
    /\ pc = "sc_clip"
    /\ dminputs' = clip_to_limits(dminputs, nbAct)
    /\ warned' = clip_warnings(dminputs, nbAct)
    /\ pc' = "sc_send"
    /\ UNCHANGED <<sent, log, pipeRest>>

\* asdkSend and free, lines 360-365
ScSend ==
    /\ pc = "sc_send"
    /\ sent' = dminputs
    /\ \E r \in {0, -1} : log' = Append(log, IF r = -1 THEN "sendfail" ELSE "send")
    /\ pc' = "sc_done"
    /\ UNCHANGED <<dminputs, warned, pipeRest>>

NextPipe == ScGather \/ ScNormalize \/ ScFractional \/ ScBias \/ ScClip \/ ScSend

SpecPipe == InitPipe /\ [][NextPipe]_vars

-----------------------------------------------------------------------------
(* Properties *)

SendPcs == {"base_send", "loop_send"}
IsSend(e) == e \in {"send", "sendfail"}
IsDeviceCall(e) == e # "semwait"
Sends(sq) == Cardinality({i \in 1..Len(sq) : IsSend(sq[i])})

\* C1 (as claimed): every element of every vector sendCommand passes to
\* asdkSend lies in [-1, 1], whatever the frame, the mapping and the switches.
C1_ClaimSentInUnit ==
    pc = "sc_done" => \A i \in 1..nbAct : InUnit(sent[i])

\* C2: when SIGINT is handled while controlLoop is in the loop's semaphore
\* wait, no asdkSend follows, and by the time controlLoop has returned the
\* device calls made since are exactly asdkReset then asdkRelease.
C2_InterruptedWaitShutsDown ==
    sigwait =>
        LET tail == SubSeq(log, sigmark + 1, Len(log))
        IN  /\ \A i \in 1..Len(tail) : ~IsSend(tail[i])
            /\ pc = "returned" =>
                   SelectSeq(tail, IsDeviceCall) = <<"reset", "release">>

C2_Witness ==
    /\ sigwait /\ pc = "returned"
    /\ SubSeq(log, sigmark + 1, Len(log)) = <<"semwait", "reset", "release">>

\* C3: a failed asdkSend, in the baseline or in a loop cycle, is the last call
\* controlLoop makes: it has returned -1, with no later wait and no later send.
C3_FailedSendIsFinal ==
    \A i \in 1..Len(log) :
        log[i] = "sendfail" => i = Len(log) /\ pc = "returned" /\ ret = -1

C3_Witness ==
    /\ pc = "returned" /\ ret = -1
    /\ Len(log) > 0 /\ log[Len(log)] = "sendfail"
    /\ Count(log, "send") >= 1

\* C4 (as claimed): when the loop is about to make its first semaphore wait,
\* exactly one asdkSend call has been made and its vector is all zeros.
C4_ClaimBaselineAllZero ==
    (pc = "loop_wait" /\ Count(log, "semwait") = 1) =>
        /\ Sends(log) = 1
        /\ \A i \in 1..nbAct : sent[i] = Zero

\* the reference pipeline, element by element
RefIn(i) == frame[actuator_mapping[i]]

RefScaled(x) ==
    LET a == IF nonorm = 1 THEN x ELSE FMul(x, volume_factor)
    IN  IF fractional = 1 THEN a ELSE FDiv(a, max_stroke)

RECURSIVE RefSumFrom(_)
RefSumFrom(i) ==
    IF i > nbAct THEN Zero ELSE FAdd(RefScaled(RefIn(i)), RefSumFrom(i + 1))

RefMean == FDiv(RefSumFrom(1), F(nbAct))

RefClip(x) ==
    IF IsNaN(x) \/ InUnit(x) THEN x
    ELSE IF Sign(x) > 0 THEN One ELSE MinusOne

Reference(i) ==
    RefClip(IF nobias = 1 THEN RefScaled(RefIn(i))
            ELSE FSub(RefScaled(RefIn(i)), RefMean))

\* C5: for every setting of the three switches the vector sendCommand sends is
\* the reference composition of input[i] = frame[mapping[i]] (times
\* volume_factor unless nonorm, over max_stroke unless fractional, minus the
\* mean unless nobias, clipped always), and the array the bias stage receives
\* is the scaled input whether or not bias removal is on.
C5_SentIsReference ==
    /\ pc = "sc_bias" =>
           \A i \in 1..nbAct : dminputs[i] = RefScaled(RefIn(i))
    /\ pc = "sc_done" =>
           \A i \in 1..nbAct : sent[i] = Reference(i)

C5_Witness ==
    /\ pc = "sc_done"
    /\ nobias = 0 /\ nonorm = 0 /\ fractional = 0
    /\ nbAct = 2 /\ actuator_mapping[1] # actuator_mapping[2]
    /\ sent[1].k = "fin" /\ sent[1].n > 0 /\ sent[1].d > 1
    /\ sent[2] = FNeg(sent[1])

\* the positive cells of the grid, as <<row, column>>
Positives ==
    {rc \in (1..naxes[2]) \X (0..(naxes[1] - 1)) : mask[rc[1]][rc[2]] > 0}

\* the writes form a permutation of the positive cells
WrittenIsPermutation ==
    /\ Len(written) = Cardinality(Positives)
    /\ \A k \in 1..Len(written) :
         /\ written[k][1] = k - 1
         /\ written[k][2] \in 0..(naxes[1] * naxes[2] - 1)
         /\ <<(written[k][2] \div naxes[1]) + 1, written[k][2] % naxes[1]>>
                \in Positives
    /\ \A k, l \in 1..Len(written) : written[k][2] = written[l][2] => k = l

C7_ClaimMappingComplete ==
    pc \in SendPcs =>
        /\ ij = nbAct
        /\ \A i \in 1..nbAct : actuator_mapping[i] # Uninit
        /\ \A k \in 1..Len(written) : written[k][1] < nbAct

\* C8 (as claimed): with the environment variable unset or with fewer than two
\* lines in the file, parse_calibration_file reports failure and asdkInit is
\* never called.
C8_ClaimShortFileFails ==
    (~calenv \/ Len(callines) < 2) =>
        /\ pc = "cal_ret" => ret = -1
        /\ pc # "cal_init"

\* C9 (as claimed): when the mapping file does not open or is not a 2-D image,
\* controlLoop makes no asdkSend call and does not enter the loop.
C9_ClaimBadMapAborts ==
    mapfile \in {"openfail", "not2d"} =>
        /\ Sends(log) = 0
        /\ pc \notin {"base_send", "sigaction", "clear_stop", "loop_top",
                      "loop_wait", "loop_chk", "loop_send", "reset", "release"}

\* C10 (as claimed): whenever controlLoop has returned after asdkInit
\* succeeded, the device was released exactly once and the release is the
\* last device call.
C10_ClaimReleasedOnReturn ==
    (pc = "returned" /\ dm # "null") =>
        /\ Count(log, "release") = 1
        /\ log[Len(log)] = "release"

-----------------------------------------------------------------------------
(* main *)

\* main returns controlLoop's result, lines 566-569: the exit status is its low byte
ExitStatus == ret % 256

\* the shutdown path was taken: the last two calls are asdkReset, asdkRelease
ShutDown ==
    /\ Len(log) >= 2
    /\ log[Len(log)] = "release" /\ log[Len(log) - 1] = "reset"

\* C11 (as claimed): when controlLoop has returned, the exit status is 0 if it
\* left the loop through the stop flag and made the reset-and-release
\* shutdown, and non-zero if the initialisation (calibration, device, actuator
\* map, channel shape) or a dispatch failed.
C11_ClaimExitStatus ==
    pc = "returned" =>
        /\ ShutDown => ExitStatus = 0
        /\ ~ShutDown => ExitStatus # 0
        /\ mapfile \in {"openfail", "notimage", "not2d"} => ExitStatus # 0

\* the attached channel does not declare 2 axes of ShmDim x ShmDim
MisShaped == shape # <<0, 0, 0>> /\ shape # <<2, ShmDim, ShmDim>>

\* C12: when the attached channel does not have exactly 2 axes of the expected
\* size, controlLoop has returned -1 before the baseline: no semaphore wait
\* and no asdkSend call was made.
C12_MisShapedChannelAborts ==
    MisShaped =>
        /\ pc = "returned" /\ ret = -1
        /\ \A i \in 1..Len(log) : log[i] # "semwait" /\ ~IsSend(log[i])

C12_Witness ==
    /\ shape = <<2, ShmDim, ShmDim + 1>>
    /\ pc = "returned" /\ ret = -1 /\ log = <<"init", "get">>

\* C13: when the calibration file cannot be opened, parse_calibration_file
\* returns -1 and controlLoop returns -1 at once: asdkInit is not called, so
\* neither the channel nor any dispatch is reached.
C13_UnopenedCalibrationAborts ==
    ~calopen =>
        /\ pc \in {"cal_path", "cal_open", "cal_ret", "returned", "crashed"}
        /\ pc \in {"cal_ret", "returned"} => ret = -1
        /\ log = <<>>
        /\ max_stroke = NaN /\ volume_factor = NaN

C13_Witness ==
    /\ ~calopen /\ calenv /\ Len(callines) = 2
    /\ pc = "returned" /\ ret = -1 /\ log = <<>>

\* C14: the clip stage reports each actuator whose value is greater than 1 or
\* less than -1 exactly once and no actuator whose value lies in [-1, 1], and
\* the dispatch goes on: the clipped vector is the one handed to asdkSend.
C14_OneWarningPerSaturation ==
    /\ [][pc = "sc_clip" =>
             /\ \A i \in 1..nbAct :
                  /\ (FGt(dminputs[i], One) \/ FLt(dminputs[i], MinusOne))
                         => Count(warned', i) = 1
                  /\ InUnit(dminputs[i]) => Count(warned', i) = 0
             /\ pc' = "sc_send"]_vars
    /\ [][pc = "sc_send" => (pc' = "sc_done" /\ sent' = dminputs)]_vars

C14_Witness ==
    /\ pc = "sc_done" /\ nbAct = 2
    /\ warned = <<1>> /\ sent = <<One, One>>

\* C16: clip_to_limits is idempotent: applied to the vector it produced it
\* changes no element and reports no actuator.
C16_ClipIdempotent ==
    pc \in {"sc_send", "sc_done"} =>
        /\ clip_to_limits(dminputs, nbAct) = dminputs
        /\ clip_warnings(dminputs, nbAct) = <<>>

C16_Witness ==
    /\ pc = "sc_send" /\ nbAct = 2
    /\ warned = <<1, 2>> /\ dminputs = <<One, MinusOne>>

\* the steps that initializeSharedMemory makes up to its zero fill
FillPcs == {"ism_create", "ism_zero"}

\* C15: after the zero fill of initializeSharedMemory no step of controlLoop
\* or sendCommand changes the channel's array: a step that moves the program
\* leaves the array as it was, so only the external writer changes it.
C15_ArrayOnlyWrittenByWriter ==
    [][(pc' # pc /\ pc \notin FillPcs) => frame' = frame]_vars

C15_Witness ==
    /\ pc = "loop_top" /\ Count(log, "send") = 2
    /\ frame # ZeroFrame

\* C17: every asdkSend call comes right after a return of the semaphore wait,
\* so at most one dispatch is made per wake; and a wake after which stop is
\* read as set makes no dispatch: the loop goes back to its test and from
\* there to the shutdown, with no call in between.
C17_OneDispatchPerWake ==
    /\ [](\A i \in 1..Len(log) :
             IsSend(log[i]) => (i > 1 /\ log[i - 1] = "semwait"))
    /\ [][(pc = "loop_chk" /\ stop = 1 /\ pc' # pc)
             => (pc' = "loop_top" /\ log' = log /\ sent' = sent)]_vars
    /\ [][(pc = "loop_top" /\ stop = 1 /\ pc' # pc)
             => (pc' = "reset" /\ log' = log /\ sent' = sent)]_vars

C17_Witness ==
    /\ pc = "returned"
    /\ log = <<"init", "get", "semwait", "send", "semwait", "send",
               "semwait", "reset", "release">>

\* C19: the handler is installed only after the baseline dispatch succeeded:
\* whenever it is installed the first asdkSend call of the run has returned
\* success, and while it is not installed the stop flag is not set.
C19_HandlerAfterBaseline ==
    /\ handler =>
          \E i \in 1..Len(log) :
              /\ log[i] = "send"
              /\ \A j \in 1..(i - 1) : ~IsSend(log[j])
    /\ ~handler => stop = 0

C19_Witness ==
    /\ handler /\ stop = 1 /\ pc = "loop_wait"
    /\ log = <<"init", "get", "semwait", "send">>

\* cell a is met before cell b in a scan from the last row to the first and
\* from left to right within a row
ScannedBefore(a, b) == a[1] > b[1] \/ (a[1] = b[1] /\ a[2] < b[2])

\* the place of a positive cell among the positive cells in that scan
ScanRank(rc) == Cardinality({q \in Positives : ScannedBefore(q, rc)}) + 1

C21_SendsBoundedByPosts ==
    /\ Sends(log) <= 1 + posts
    /\ pc = "ism_zero" => sem <= posts

C21_Witness ==
    /\ pc = "loop_wait" /\ posts = 1 /\ sem = 0 /\ stop = 0
    /\ log = <<"init", "get", "semwait", "send">>

-----------------------------------------------------------------------------
(* argp_parse and parse_opt *)

\* the words of a command line: the three flags and positional words
Flags    == {"b", "n", "f"}
Words    == {"w1", "w2", "w3"}

\* the command lines of up to n words
RECURSIVE Cmdlines(_)
Cmdlines(n) ==
    IF n = 0 THEN {<<>>}
    ELSE LET S == Cmdlines(n - 1)
         IN  S \cup {Append(l, w) : l \in {x \in S : Len(x) = n - 1},
                                     w \in Flags \cup Words}

\* sq without its i-th element
Without(sq, i) == SubSeq(sq, 1, i - 1) \o SubSeq(sq, i + 1, Len(sq))

\* the place of the first flag left on the command line, 0 when none is left
FirstFlag(sq) ==
    IF \E i \in 1..Len(sq) : sq[i] \in Flags
    THEN CHOOSE i \in 1..Len(sq) :
             sq[i] \in Flags /\ \A j \in 1..(i - 1) : sq[j] \notin Flags
    ELSE 0

\* the key argp_parse hands to parse_opt next.  main passes no flags to
\* argp_parse (line 560), so the options are delivered first, in their order
\* on the command line, then the positional words, then ARGP_KEY_END.
NextKey ==
    IF FirstFlag(argrest) # 0 THEN argrest[FirstFlag(argrest)]
    ELSE IF argrest # <<>> THEN "ARG" ELSE "END"

\* main before argp_parse, lines 549-556: the switches are cleared, args is
\* not initialised
InitArgs ==
    /\ pc = "argp_next"
    /\ argv \in Cmdlines(MaxArgv) /\ argrest = argv
    /\ args = <<"junk", "junk">> /\ arg_num = 0
    /\ nobias = 0 /\ nonorm = 0 /\ fractional = 0
    /\ max_stroke = NaN /\ volume_factor = NaN
    /\ nbAct = 0 /\ actuator_mapping = <<>> /\ ij = 0 /\ mapret = 0
    /\ mapfile = "none" /\ frame = ZeroFrame /\ written = <<>>
    /\ log = <<>> /\ sent = NoVec
    /\ ctlIdle /\ calIdle /\ pipeIdle /\ mapIdle

optRest == <<max_stroke, volume_factor, nbAct, actuator_mapping, ij, mapret,
             mapfile, frame, written, log, sent, ret, argv, calidx, callines,
             calenv, calopen, calibvals, dminputs, warned, mask, naxes,
             fpixel, readfail, ctlVars>>

\* parse_opt, lines 505-541, for the key and the argument it is handed; a
\* flag comes with a NULL argument.  Case 'f' has no break and runs on into
\* the case of a positional word.  argp_usage ends the process.
parse_opt(key, arg) ==
    CASE key = "b" ->
           /\ nobias' = 1 /\ pc' = "argp_next"
           /\ UNCHANGED <<nonorm, fractional, args>>
      [] key = "n" ->
           /\ nonorm' = 1 /\ pc' = "argp_next"
           /\ UNCHANGED <<nobias, fractional, args>>
      [] key \in {"f", "ARG"} ->
           /\ fractional' = (IF key = "f" THEN 1 ELSE fractional)
           /\ IF arg_num >= 2
              THEN pc' = "argp_usage" /\ UNCHANGED args
              ELSE pc' = "argp_next"
                   /\ args' = [args EXCEPT ![arg_num + 1] = arg]
           /\ UNCHANGED <<nobias, nonorm>>
      [] key = "END" ->
           /\ pc' = (IF arg_num < 2 THEN "argp_usage" ELSE "argp_done")
           /\ UNCHANGED <<nobias, nonorm, fractional, args>>

\* argp_parse hands an option to parse_opt
ArgpOption ==
    /\ pc = "argp_next"
    /\ NextKey \in Flags
    /\ parse_opt(NextKey, "null")
    /\ argrest' = Without(argrest, FirstFlag(argrest))
    /\ UNCHANGED <<arg_num, optRest>>

\* argp_parse hands a positional word to parse_opt and counts it
ArgpArg ==
    /\ pc = "argp_next"
    /\ NextKey = "ARG"
    /\ parse_opt("ARG", Head(argrest))
    /\ argrest' = Tail(argrest)
    /\ arg_num' = arg_num + 1
    /\ UNCHANGED optRest

\* argp_parse reports the end of the command line
ArgpEnd ==
    /\ pc = "argp_next"
    /\ NextKey = "END"
    /\ parse_opt("END", "null")
    /\ UNCHANGED <<argrest, arg_num, optRest>>

NextArgs == ArgpOption \/ ArgpArg \/ ArgpEnd

SpecArgs == InitArgs /\ [][NextArgs]_vars

\* the positional words of the command line, in order
WordsOf(sq) == SelectSeq(sq, LAMBDA w : w \in Words)

\* C22 (as claimed): parsing the --fractional flag sets fractional to 1 and
\* nothing else, as the other two flags do for their switch; wherever the
\* flags stand, a command line with exactly two positional words is accepted
\* and the two words are what args holds.
C22_ClaimFlagOnlySetsSwitch ==
    /\ [][(pc = "argp_next" /\ NextKey = "f")
             => (fractional' = 1 /\ args' = args /\ pc' = "argp_next")]_vars
    /\ [](Len(WordsOf(argv)) = 2 => pc # "argp_usage")
    /\ [](pc = "argp_done" => args = WordsOf(argv))

-----------------------------------------------------------------------------
(* sendCommand of the earlier variant of the program *)

\* the constants the earlier variant has in its code: max_stroke = 3.17 and
\* volume_factor = 0.454
OldStroke == Fin(317, 100)
OldVolume == Fin(227, 500)

\* the earlier variant serves devices of one actuator more than MaxAct, so
\* that an element has more than one other element to be biased against
OldMaxAct == MaxAct + 1

\* what a cell of its channel may hold: values beyond max_stroke, within it, and NaN
OldFrameVals == {F(-2 * MaxMag), MinusOne, Zero, One, F(2 * MaxMag), NaN}

\* the channel of the earlier variant holds one cell per actuator
InitOld ==
    /\ pc = "old_gather"
    /\ nobias \in Bits /\ nonorm \in Bits /\ fractional = 0
    /\ max_stroke = OldStroke /\ volume_factor = OldVolume
    /\ nbAct \in 1..OldMaxAct
    /\ actuator_mapping = <<>>
    /\ frame \in [0..(nbAct - 1) -> OldFrameVals]
    /\ dminputs = NoVec /\ warned = <<>> /\ sent = NoVec /\ log = <<>>
    /\ ij = 0 /\ mapret = 0 /\ mapfile = "none" /\ written = <<>>
    /\ ctlIdle /\ calIdle /\ mapIdle /\ optIdle

\* calloc and the copy loop: dminputs[idx] = array.D[idx]
OldGather ==
    /\ pc = "old_gather"
    /\ dminputs' = [idx \in 1..nbAct |-> frame[idx - 1]]
    /\ pc' = "old_frac"
    /\ UNCHANGED <<warned, sent, log, pipeRest>>

\* microns_to_fractional_stroke, always applied
OldFractional ==
    /\ pc = "old_frac"
    /\ dminputs' = microns_to_fractional_stroke(dminputs, nbAct, max_stroke)
    /\ pc' = "old_clip"
    /\ UNCHANGED <<warned, sent, log, pipeRest>>

\* clip_to_limits, before the two stages that follow
OldClip ==
    /\ pc = "old_clip"
    /\ dminputs' = clip_to_limits(dminputs, nbAct)
    /\ warned' = clip_warnings(dminputs, nbAct)
    /\ pc' = "old_norm"
    /\ UNCHANGED <<sent, log, pipeRest>>

\* normalize_inputs unless nonorm
OldNormalize ==
    /\ pc = "old_norm"
    /\ dminputs' = (IF nonorm # 1
                    THEN normalize_inputs(dminputs, nbAct, volume_factor)
                    ELSE dminputs)
    /\ pc' = "old_bias"
    /\ UNCHANGED <<warned, sent, log, pipeRest>>

\* bias_inputs unless nobias
OldBias ==
    /\ pc = "old_bias"
    /\ dminputs' = (IF nobias # 1 THEN bias_inputs(dminputs, nbAct) ELSE dminputs)
    /\ pc' = "old_send"
    /\ UNCHANGED <<warned, sent, log, pipeRest>>

\* asdkSend and free
OldSend ==
    /\ pc = "old_send"
    /\ sent' = dminputs
    /\ \E r \in {0, -1} : log' = Append(log, IF r = -1 THEN "sendfail" ELSE "send")
    /\ pc' = "old_done"
    /\ UNCHANGED <<dminputs, warned, pipeRest>>

NextOld ==
    OldGather \/ OldFractional \/ OldClip \/ OldNormalize \/ OldBias \/ OldSend

SpecOld == InitOld /\ [][NextOld]_vars

\* C23 (as claimed): in the earlier variant every element of the vector
\* sendCommand passes to asdkSend lies in [-1, 1], for every frame and every
\* setting of nobias and nonorm.
C23_ClaimOldSentInUnit ==
    pc = "old_done" => \A i \in 1..nbAct : InUnit(sent[i])

\* C24 (as claimed): no interrupt request is lost: once the installed handler
\* has set stop, the flag is still set at every later test the loop makes, so
\* no dispatch follows that test.
C24_ClaimNoInterruptLost ==
    /\ [][(handler /\ stop = 1) => stop' = 1]_vars
    /\ [][(handler /\ stop = 1 /\ pc \in {"loop_top", "loop_chk"} /\ pc' # pc)
             => pc' \in {"reset", "loop_top"}]_vars

\* C25 (as claimed): for a calibration file of any number of lines,
\* parse_calibration_file stores no value outside the two slots of calibvals
\* (its write index never passes 2, and it does not die of such a store) and,
\* given at least two lines, returns line 1 as max_stroke and line 2 as
\* volume_factor.
C25_ClaimTwoSlotsSuffice ==
    /\ calidx <= 2
    /\ pc # "crashed" \/ ~calenv
    /\ (pc = "cal_ret" /\ ret = 0 /\ Len(callines) >= 2) =>
           (max_stroke = callines[1] /\ volume_factor = callines[2])

-----------------------------------------------------------------------------
(* controlLoop under a fair scheduler *)

\* the mapping of an n-actuator device whose mask has its n positive cells first
LoopMapping(n) == [i \in 1..n |-> i - 1]

\* controlLoop after a successful start, about to install the handler (line
\* 443): calibration read, device open, mapping loaded, channel attached and
\* zero-filled, its post consumed and the baseline sent
InitLoop ==
    /\ pc = "sigaction"
    /\ nobias \in Bits /\ nonorm \in Bits /\ fractional \in Bits
    /\ max_stroke = F(2) /\ volume_factor = F(2)
    /\ dm = "open" /\ nbAct \in 1..MaxAct
    /\ actuator_mapping = LoopMapping(nbAct)
    /\ ij = nbAct /\ mapret = 0 /\ mapfile = "ok"
    /\ written = WritesAt(0, LoopMapping(nbAct))
    /\ frame = ZeroFrame /\ sem = 0 /\ shape = <<2, ShmDim, ShmDim>>
    /\ stop = 0 /\ handler = FALSE /\ ret = 0
    /\ log = <<"init", "get", "semwait", "send">>
    /\ sent = [i \in 1..nbAct |-> Zero]
    /\ posts = 0 /\ sigwait = FALSE /\ sigmark = 0
    /\ calIdle /\ pipeIdle /\ mapIdle /\ optIdle

\* a step of the process itself, as opposed to one of its environment
LoopStep ==
    \/ Sigaction \/ ClearStop
    \/ LoopTop \/ LoopWait \/ LoopCheck \/ LoopSend
    \/ AsdkReset \/ AsdkRelease

NextLoop == LoopStep \/ SigInt \/ WriterStore \/ WriterPost

\* the steps of the process other than the dispatch
Scheduled ==
    \/ Sigaction \/ ClearStop
    \/ LoopTop \/ LoopWait \/ LoopCheck
    \/ AsdkReset \/ AsdkRelease

\* sendCommand returns: the process does not stay in a dispatch for ever
SendReturns == []<>(pc # "loop_send")

\* the process is scheduled as long as it can run and no call it makes blocks
\* for ever, the semaphore wait apart: a step that stays possible is
\* eventually taken.  Nothing is assumed of the signal or of the writer.
SpecFair ==
    InitLoop /\ [][NextLoop]_vars /\ WF_vars(Scheduled) /\ SendReturns

\* C18: once stop is set and the semaphore wait has returned, controlLoop
\* leaves the loop, resets and releases the device and returns; a signal
\* handled while a dispatch is in flight leaves that dispatch to complete, and
\* the loop then ends without another wait.
C18_StopEndsLoop ==
    /\ (pc = "loop_chk" /\ stop = 1) ~> (pc = "returned" /\ ShutDown)
    /\ (pc = "loop_send" /\ stop = 1) ~> pc = "returned"
    /\ [][(pc = "loop_send" /\ stop = 1 /\ pc' # pc)
             => (Len(log') = Len(log) + 1 /\ IsSend(log'[Len(log')]))]_vars
    /\ [][(pc = "loop_top" /\ stop = 1 /\ pc' # pc) => pc' = "reset"]_vars

C18_Witness ==
    /\ pc = "returned" /\ ShutDown /\ ret = 0 /\ stop = 1 /\ ~sigwait
    /\ Count(log, "send") = 2 /\ Count(log, "semwait") = 2

====
